---------------------------- MODULE Spec2Model ----------------------------
(***************************************************************************)
(* A model of sample_code/tabular_data/dhs_util.py: the cleaning,          *)
(* labelling, aggregation, cohort and matrix operations on a table of      *)
(* service-usage transactions.                                             *)
(*                                                                         *)
(* A table (a pandas DataFrame) is a record                                *)
(*    rows   : the sequence of its rows, each a record column -> value     *)
(*    nacols : the columns every value of which is missing                 *)
(*    cat    : for each column of categorical dtype, its category set      *)
(* Text dates are <<year, month, day>>; a parsed date is the number        *)
(* year*10000 + month*100 + day, which orders as the calendar does.        *)
(* A float is a fraction [n, d] in lowest terms; NaN is 0/0, inf is 1/0.   *)
(***************************************************************************)
EXTENDS Integers, Sequences, FiniteSets, TLC

VARIABLES
    df,       \* the table the caller holds and hands to the next call
    passed,   \* the object handed to the last call, as it is after the call
    res,      \* what the last call returned
    aliased,  \* the table returned by the last call is the object handed in
    service_map, \* the dict add_service_label returned
    lastOp    \* the name of the last call

vars == <<df, passed, res, aliased, service_map, lastOp>>

----------------------------------------------------------------------------
(* Bounds of the model and the value domains the inputs are drawn from.    *)

MaxRows == 2
MaxCohortRows == 3
MaxAge == 110

Ids == {1, 2}
Services == {"Food", "Housing"}
ServiceCategories == Services \cup {"Transit"}
RawDates == {<<2020, 1, 5>>, <<2020, 12, 5>>, <<2021, 1, 20>>}
Ages == {5, 100}
FarAges == {150, 999}

----------------------------------------------------------------------------
(* Helpers: sequences, columns, floats.                                    *)

Range(s) == {s[i] : i \in 1..Len(s)}

Column(rows, c) == [i \in 1..Len(rows) |-> rows[i][c]]

Min(S) == CHOOSE x \in S : \A y \in S : x <= y

Max(S) == CHOOSE x \in S : \A y \in S : y <= x

RECURSIVE SortedSeq(_)
SortedSeq(S) == IF S = {} THEN <<>> ELSE <<Min(S)>> \o SortedSeq(S \ {Min(S)})

RECURSIVE Concat(_)
Concat(ss) == IF ss = <<>> THEN <<>> ELSE Head(ss) \o Concat(Tail(ss))

Project(r, cols) == [c \in cols |-> r[c]]

DropCols(rows, cols) == [i \in 1..Len(rows) |-> Project(rows[i], (DOMAIN rows[i]) \ cols)]

RECURSIVE Gcd(_, _)
Gcd(a, b) == IF b = 0 THEN a ELSE Gcd(b, a % b)

NaN == [n |-> 0, d |-> 0]
Inf == [n |-> 1, d |-> 0]
Num(k) == [n |-> k, d |-> 1]

----------------------------------------------------------------------------
(* Tables.                                                                 *)

HasCol(t, c) == Len(t.rows) > 0 /\ c \in DOMAIN t.rows[1]

Observed(t, c) == Range(Column(t.rows, c))

IsCategorical(t, c) == c \in DOMAIN t.cat

\* The columns of t under the new names f gives them (DataFrame.rename);
\* f maps every column name of t.
RenameCols(t, f) ==
    [rows   |-> [i \in 1..Len(t.rows) |->
                    [c2 \in {f[c] : c \in DOMAIN t.rows[i]} |->
                        t.rows[i][CHOOSE c \in DOMAIN t.rows[i] : f[c] = c2]]],
     nacols |-> {f[c] : c \in t.nacols},
     cat    |-> [c2 \in {f[c] : c \in DOMAIN t.cat} |->
                    t.cat[CHOOSE c \in DOMAIN t.cat : f[c] = c2]]]

\* The column names of a table.
Columns(t) == IF t.rows = <<>> THEN {} ELSE DOMAIN t.rows[1]

\* The table without the columns in cols (DataFrame.drop(cols, axis=1)).
DropColumns(t, cols) ==
    [rows   |-> DropCols(t.rows, cols),
     nacols |-> t.nacols \ cols,
     cat    |-> [c \in (DOMAIN t.cat) \ cols |-> t.cat[c]]]

\* The table with column c set row by row to vals (df[c] = vals).
SetColumn(t, c, vals) ==
    [t EXCEPT !.rows = [i \in 1..Len(t.rows) |->
        [k \in (DOMAIN t.rows[i]) \cup {c} |->
            IF k = c THEN vals[i] ELSE t.rows[i][k]]]]

----------------------------------------------------------------------------
(* dhs_preprocessing                                                       *)

UpperNames ==
    [MCI_UNIQ_ID |-> "mci_uniq_id", DATE_OF_EVENT |-> "date_of_event",
     SERVICE |-> "service", AGE |-> "age", GENDER |-> "gender", RACE |-> "race",
     MARITAL_STATUS |-> "marital_status", EDUCATION_LEVEL |-> "education_level",
     CALDR_YR |-> "caldr_yr", GEO_AREA |-> "geo_area"]

\* str.lower on a column name.
StrLower(c) == IF c \in DOMAIN UpperNames THEN UpperNames[c] ELSE c

\* The rename dictionary of the second rename.
CanonicalName(c) ==
    CASE c = "mci_uniq_id"     -> "id"
      [] c = "date_of_event"   -> "date"
      [] c = "marital_status"  -> "marital"
      [] c = "education_level" -> "education"
      [] OTHER                 -> c

\* pd.to_datetime on a text date.
ToDatetime(txt) == txt[1] * 10000 + txt[2] * 100 + txt[3]

\* Series.dt.month
MonthOf(date) == (date \div 100) % 100

MonthNames ==
    <<"January", "February", "March", "April", "May", "June", "July",
      "August", "September", "October", "November", "December">>

\* Series.dt.month_name()
MonthName(date) == MonthNames[MonthOf(date)]

DroppedColumns == {"synthetic_data", "CALDR_YR"}

CategoryColumns == {"service", "gender", "race", "marital", "education"}

\* Lines 25-41: every step acts on the caller's object (inplace=True, df[c] = ...).
PreprocessInPlace(t) ==
    LET t1 == DropColumns(t, t.nacols)
        t2 == DropColumns(t1, DroppedColumns)
        t3 == RenameCols(t2, [c \in Columns(t2) |-> StrLower(c)])
        t4 == RenameCols(t3, [c \in Columns(t3) |-> CanonicalName(c)])
        t5 == SetColumn(t4, "date",
                  [i \in 1..Len(t4.rows) |-> ToDatetime(t4.rows[i].date)])
    IN  SetColumn(t5, "month",
            [i \in 1..Len(t5.rows) |-> MonthName(t5.rows[i].date)])

\* Lines 43-49: astype returns a new table; a column that is categorical
\* already keeps its categories, any other takes the values it holds.
AsType(t) ==
    [t EXCEPT !.cat = [c \in (DOMAIN t.cat) \cup CategoryColumns |->
        IF c \in DOMAIN t.cat THEN t.cat[c] ELSE Observed(t, c)]]

dhs_preprocessing(t) == AsType(PreprocessInPlace(t))

----------------------------------------------------------------------------
(* add_service_label, service_lookup                                       *)

RECURSIVE Unique(_)
\* Series.unique(): the distinct values in order of first appearance.
Unique(s) ==
    IF s = <<>> THEN <<>>
    ELSE LET u == Unique(SubSeq(s, 1, Len(s) - 1))
             x == s[Len(s)]
         IN  IF x \in Range(u) THEN u ELSE Append(u, x)

\* str(i).zfill(2)
Zfill2(i) == IF i < 10 THEN "0" \o ToString(i) ELSE ToString(i)

\* Faulty labels: every one made from the count instead of the index.
ServListOfCount(n) == [i \in 1..n |-> "S" \o Zfill2(n)]

\* Line 53: 'S' + str(i).zfill(2) for i in range(1, 1 + n)
ServList(n) == [i \in 1..n |-> "S" \o Zfill2(i)]

\* A dict is the sequence of its items in insertion order.
DictKeys(d) == {d[i].key : i \in 1..Len(d)}

DictGet(d, k) == d[CHOOSE i \in 1..Len(d) : d[i].key = k].value

DictSet(d, k, v) ==
    IF k \in DictKeys(d)
    THEN [i \in 1..Len(d) |-> IF d[i].key = k THEN [key |-> k, value |-> v] ELSE d[i]]
    ELSE Append(d, [key |-> k, value |-> v])

RECURSIVE DictZip(_, _)
\* dict(zip(keys, values)): as long as the shorter of the two.
DictZip(keys, values) ==
    IF keys = <<>> \/ values = <<>> THEN <<>>
    ELSE LET n == IF Len(keys) < Len(values) THEN Len(keys) ELSE Len(values)
         IN  DictSet(DictZip(SubSeq(keys, 1, n - 1), SubSeq(values, 1, n - 1)),
                     keys[n], values[n])

\* Line 54
ServiceMap(t) ==
    LET uniq == Unique(Column(t.rows, "service"))
    IN  DictZip(uniq, ServList(Len(uniq)))

\* Series.map(dict): a value that is no key maps to NaN.
MapValue(d, v) == IF v \in DictKeys(d) THEN DictGet(d, v) ELSE "NaN"

\* Line 55. Mapping a categorical column maps its categories: the result is
\* categorical when every category has an image and no two share one, and a
\* plain object column otherwise.
add_service_label(t) ==
    LET m   == ServiceMap(t)
        t1  == SetColumn(t, "serv",
                   [i \in 1..Len(t.rows) |-> MapValue(m, t.rows[i].service)])
        img == IF IsCategorical(t, "service")
               THEN {MapValue(m, s) : s \in t.cat.service} ELSE {}
        ok  == /\ IsCategorical(t, "service")
               /\ "NaN" \notin img
               /\ Cardinality(img) = Cardinality(t.cat.service)
    IN  IF ok THEN [t1 EXCEPT !.cat = [c \in (DOMAIN t.cat) \cup {"serv"} |->
                        IF c = "serv" THEN img ELSE t.cat[c]]]
        ELSE [t1 EXCEPT !.cat = [c \in (DOMAIN t.cat) \ {"serv"} |-> t.cat[c]]]

\* Line 59: the first key whose value is serv; StopIteration when there is none.
service_lookup(serv, map) ==
    IF \E i \in 1..Len(map) : map[i].value = serv
    THEN map[Min({i \in 1..Len(map) : map[i].value = serv})].key
    ELSE "StopIteration"

----------------------------------------------------------------------------
(* add_age_bin                                                             *)

BinStart == 0
BinStop == 100
BinCount == 11

\* np.linspace(0, 100, 11).astype(int)
Bins == [i \in 1..BinCount |->
            BinStart + ((i - 1) * (BinStop - BinStart)) \div (BinCount - 1)]

\* np.roll(a, -1): the first element moves to the end.
RollLeft(a) == IF a = <<>> THEN a ELSE Tail(a) \o <<Head(a)>>

\* Line 63
BinsLower == RollLeft([i \in 1..Len(Bins) |-> Bins[i] - 1])

\* Lines 65-66
BinNames ==
    [i \in 1..Len(Bins) |->
        IF i = Len(Bins) THEN ToString(Bins[i]) \o "+"
        ELSE ToString(Bins[i]) \o "-" \o ToString(BinsLower[i])]

\* Line 67: {1: names[0], 2: names[1], ...}
BinNameMap == DictZip([i \in 1..Len(BinNames) |-> i], BinNames)

\* A faulty binning: np.digitize(x, bins, right=True), the edges < x.
DigitizeRight(x, bins) == Cardinality({i \in 1..Len(bins) : bins[i] < x})

\* np.digitize(x, bins) for increasing bins: the number of edges <= x.
Digitize(x, bins) == Cardinality({i \in 1..Len(bins) : bins[i] <= x})

AgeBin(age) == MapValue(BinNameMap, Digitize(age, Bins))

\* Lines 68-69: the column is added to the table handed in.
add_age_bin(t) ==
    LET t1 == SetColumn(t, "age_bin",
                  [i \in 1..Len(t.rows) |-> AgeBin(t.rows[i].age)])
    IN  [t1 EXCEPT !.cat = [c \in (DOMAIN t.cat) \cup {"age_bin"} |->
            IF c = "age_bin" THEN Observed(t1, "age_bin") ELSE t.cat[c]]]

----------------------------------------------------------------------------
(* Grouping, joining, deduplicating.                                       *)

\* The rows of a group: those whose columns keys equal the ones of key.
GroupRows(rows, key) ==
    SelectSeq(rows, LAMBDA r : Project(r, DOMAIN key) = key)

\* A faulty count: the distinct values instead of the rows.
CountDistinct(rows, c) == Cardinality(Range(Column(rows, c)))

\* ('c', 'count'): the rows of the group (no value of c is missing).
Count(rows, c) == Len(rows)

\* ('c', 'nunique')
NUnique(rows, c) == Cardinality(Range(Column(rows, c)))

\* The members of S in increasing order of the (distinct) integers key
\* gives them.
SortedBy(S, key) ==
    LET ks == SortedSeq({key[x] : x \in S})
    IN  [i \in 1..Len(ks) |-> CHOOSE x \in S : key[x] = ks[i]]

\* The position of a text in the alphabetical order groupby sorts by.
AlphaOrder ==
    <<"April", "August", "December", "February", "Food", "Housing", "January",
      "July", "June", "March", "May", "November", "October", "September",
      "Transit">>

AlphaRank(txt) == CHOOSE i \in 1..Len(AlphaOrder) : AlphaOrder[i] = txt

\* pd.merge(left, right, on=on, how='left'): each left row in order, with
\* each right row of the same key in the right table's order.
MergeLeft(left, right, on) ==
    LET rcols == IF right = <<>> THEN {} ELSE (DOMAIN right[1]) \ {on}
    IN  Concat([i \in 1..Len(left) |->
            LET m == SelectSeq(right, LAMBDA r : r[on] = left[i][on])
            IN  IF m = <<>> THEN <<left[i] @@ [c \in rcols |-> "NaN"]>>
                ELSE [j \in 1..Len(m) |-> left[i] @@ m[j]]])

\* A faulty deduplication: every row stays.
KeepAllRows(rows, subset) == rows

\* A faulty deduplication: the last row of each key stays (keep='last').
DropDuplicatesKeepLast(rows, subset) ==
    LET keep == {i \in 1..Len(rows) :
                    \A j \in (i + 1)..Len(rows) :
                        Project(rows[j], subset) /= Project(rows[i], subset)}
        idx  == SortedSeq(keep)
    IN  [k \in 1..Len(idx) |-> rows[idx[k]]]

\* DataFrame.drop_duplicates(subset): the first row of each key stays.
DropDuplicates(rows, subset) ==
    LET keep == {i \in 1..Len(rows) :
                    \A j \in 1..(i - 1) : Project(rows[j], subset) /= Project(rows[i], subset)}
        idx  == SortedSeq(keep)
    IN  [k \in 1..Len(idx) |-> rows[idx[k]]]

GroupKeyColumns == {"service", "date", "month"}

----------------------------------------------------------------------------
(* get_recipient_attribute, get_recipient_month_attribute                  *)

\* Lines 73-80
RecipientAgg(t) ==
    LET keys == SortedSeq(Observed(t, "id"))
    IN  [k \in 1..Len(keys) |->
            LET g == GroupRows(t.rows, [id |-> keys[k]])
            IN  [id               |-> keys[k],
                 num_service      |-> Count(g, "service"),
                 distinct_service |-> NUnique(g, "service"),
                 first_date       |-> Min(Range(Column(g, "date"))),
                 last_date        |-> Max(Range(Column(g, "date"))),
                 num_month        |-> Count(g, "month"),
                 distinct_month   |-> NUnique(g, "month")]]

\* Lines 82-83
get_recipient_attribute(t) ==
    DropDuplicates(
        MergeLeft(RecipientAgg(t), DropCols(t.rows, GroupKeyColumns), "id"),
        {"id"})

\* Lines 88-90
RecipientMonthAgg(t) ==
    LET pairs == {Project(t.rows[i], {"id", "month"}) : i \in 1..Len(t.rows)}
        keys  == SortedBy(pairs, [p \in pairs |->
                     p.id * (Len(AlphaOrder) + 1) + AlphaRank(p.month)])
    IN  [k \in 1..Len(keys) |->
            LET g == GroupRows(t.rows, keys[k])
            IN  [id          |-> keys[k].id,
                 month       |-> keys[k].month,
                 num_service |-> Count(g, "service")]]

\* A faulty summary: deduplicated on id alone, as the recipient summary is.
RecipientMonthDedupById(t) ==
    DropDuplicates(
        MergeLeft(RecipientMonthAgg(t), DropCols(t.rows, GroupKeyColumns), "id"),
        {"id"})

\* Lines 91-92
get_recipient_month_attribute(t) ==
    DropDuplicates(
        MergeLeft(RecipientMonthAgg(t), DropCols(t.rows, GroupKeyColumns), "id"),
        {"id", "month"})

----------------------------------------------------------------------------
(* get_service_attribute                                                   *)

\* A faulty division: a zero divisor gives zero.
DivideOrZero(a, b) ==
    IF b = 0 THEN Num(0)
    ELSE [n |-> a \div Gcd(a, b), d |-> b \div Gcd(a, b)]

\* Float division of two counts: x/0 is inf, 0/0 is NaN.
Divide(a, b) ==
    IF b = 0 THEN (IF a = 0 THEN NaN ELSE Inf)
    ELSE [n |-> a \div Gcd(a, b), d |-> b \div Gcd(a, b)]

\* The groups of a groupby on column c: the values that occur, and with
\* observed=False on a categorical column every category.
GroupValues(t, c, observed) ==
    IF IsCategorical(t, c) /\ ~observed THEN t.cat[c] ELSE Observed(t, c)

\* Lines 126-131. observed is the default of groupby in the pandas used.
get_service_attribute(t, observed) ==
    LET vals == GroupValues(t, "service", observed)
        keys == SortedBy(vals, [v \in vals |-> AlphaRank(v)])
    IN  [k \in 1..Len(keys) |->
            LET g == GroupRows(t.rows, [service |-> keys[k]])
            IN  [service               |-> keys[k],
                 total_usage           |-> Count(g, "id"),
                 num_recipient         |-> NUnique(g, "id"),
                 distinct_month        |-> NUnique(g, "month"),
                 avg_monthly_recipient |-> Divide(Count(g, "id"), NUnique(g, "month"))]]

----------------------------------------------------------------------------
(* get_retention_cohort                                                    *)

\* Float division of two floats; NaN in, NaN out.
FloatDiv(x, y) ==
    IF x = NaN \/ y = NaN THEN NaN
    ELSE IF y.n = 0 THEN (IF x.n = 0 THEN NaN ELSE Inf)
    ELSE Divide(x.n * y.d, x.d * y.n)

\* Lines 153-155
FirstDates(t) ==
    LET keys == SortedSeq(Observed(t, "id"))
    IN  [k \in 1..Len(keys) |->
            [id         |-> keys[k],
             first_date |-> Min(Range(Column(GroupRows(t.rows, [id |-> keys[k]]), "date")))]]

\* Lines 156-157: elapsed is a difference of month numbers, whatever the years.
RetentionRows(t) ==
    LET m == MergeLeft(t.rows, FirstDates(t), "id")
    IN  [i \in 1..Len(m) |->
            m[i] @@ [elapsed |-> MonthOf(m[i].date) - MonthOf(m[i].first_date)]]

\* Lines 158-161: a pivoted table is its index, its columns in order, and
\* its cells; pivot sorts both, and a combination that never occurs is NaN.
RetentionCount(t) ==
    LET rows == RetentionRows(t)
        idx  == SortedSeq(Range(Column(rows, "first_date")))
        cols == SortedSeq(Range(Column(rows, "elapsed")))
    IN  [index   |-> idx,
         columns |-> cols,
         cell    |-> [k \in Range(idx) \X Range(cols) |->
                        LET g == GroupRows(rows, [first_date |-> k[1], elapsed |-> k[2]])
                        IN  IF g = <<>> THEN NaN ELSE Num(NUnique(g, "id"))]]

\* Line 162-163: after reset_index column 0 is first_date and column 1 is
\* the first column of the pivot; every row is divided by its value there.
RatioBase(count) == count.columns[1]

RetentionRatio(count) ==
    [count EXCEPT !.cell = [k \in DOMAIN count.cell |->
        FloatDiv(count.cell[k], count.cell[<<k[1], RatioBase(count)>>])]]

get_retention_cohort(t) ==
    [count |-> RetentionCount(t), ratio |-> RetentionRatio(RetentionCount(t))]

----------------------------------------------------------------------------
(* get_id_service_matrix                                                   *)

RECURSIVE SumSeq(_)
SumSeq(s) == IF s = <<>> THEN 0 ELSE Head(s) + SumSeq(Tail(s))

\* The groups of a groupby on (id, c) with observed=False: the pairs that
\* occur, and when c is categorical every id with every category.
PairGroups(rows, c, cats, categorical) ==
    IF categorical THEN {[id |-> i, serv |-> v] : i \in Range(Column(rows, "id")), v \in cats}
    ELSE {Project(rows[i], {"id", c}) : i \in 1..Len(rows)}

RECURSIVE SetToSeq(_)
\* The members of S in some order.
SetToSeq(S) ==
    IF S = {} THEN <<>>
    ELSE LET x == CHOOSE y \in S : TRUE IN <<x>> \o SetToSeq(S \ {x})

\* Lines 168-170: one row per group, in an order that plays no part in the
\* pivot; the count of an empty group is 0.
IdServTemp(t) ==
    LET cats == IF IsCategorical(t, "serv") THEN t.cat.serv ELSE {}
        keys == SetToSeq(PairGroups(t.rows, "serv", cats, IsCategorical(t, "serv")))
    IN  [k \in 1..Len(keys) |->
            keys[k] @@ [num_serv |-> NUnique(GroupRows(t.rows, keys[k]), "service")]]

\* Lines 171-174: pivot_table groups the rows again (observed=False) and
\* sums each group; a pair without a group has no value (NaN), and a
\* column of NaN only is dropped.
get_id_service_matrix(t) ==
    LET temp == IdServTemp(t)
        cats == IF IsCategorical(t, "serv") THEN t.cat.serv ELSE {}
        keys == PairGroups(temp, "serv", cats, IsCategorical(t, "serv"))
        ids  == {k.id : k \in keys}
        cols == {k.serv : k \in keys}
        cell == [k \in ids \X cols |->
                    IF [id |-> k[1], serv |-> k[2]] \in keys
                    THEN Num(SumSeq(Column(
                             GroupRows(temp, [id |-> k[1], serv |-> k[2]]), "num_serv")))
                    ELSE NaN]
        kept == {c \in cols : \E i \in ids : cell[<<i, c>>] /= NaN}
    IN  [index |-> ids, columns |-> kept,
         cell |-> [k \in ids \X kept |-> cell[k]]]

----------------------------------------------------------------------------
(* The input tables.                                                       *)

RawRow(id, service, date, age) ==
    [MCI_UNIQ_ID |-> id, DATE_OF_EVENT |-> date, SERVICE |-> service, AGE |-> age,
     GENDER |-> "F", RACE |-> "W", MARITAL_STATUS |-> "Single",
     EDUCATION_LEVEL |-> "HS", synthetic_data |-> 1, CALDR_YR |-> date[1],
     GEO_AREA |-> "NA"]

RawRows(ids, services, dates, ages) ==
    {RawRow(i, s, d, a) : i \in ids, s \in services, d \in dates, a \in ages}

\* A raw table: its service column holds plain text, or is categorical over
\* a domain of services that the rows do not exhaust.
RawTable(rows, categorical) ==
    [rows   |-> rows,
     nacols |-> {"GEO_AREA"},
     cat    |-> IF categorical THEN [SERVICE |-> ServiceCategories]
                ELSE [c \in {} |-> {}]]

InitWith(rowSet, maxRows) ==
    /\ \E n \in 1..maxRows : \E rows \in [1..n -> rowSet] :
         \E categorical \in BOOLEAN : df = RawTable(rows, categorical)
    /\ passed = df
    /\ res = <<>>
    /\ service_map = <<>>
    /\ aliased = FALSE
    /\ lastOp = "none"

Init == InitWith(RawRows(Ids, Services, RawDates, Ages), MaxRows)

\* Longer tables of one service and one age: the tables the cohorts need.
InitCohort == InitWith(RawRows(Ids, {"Food"}, RawDates, {5}), MaxCohortRows)

\* One row, of any age: the tables the age bins are checked on.
InitAge ==
    InitWith(RawRows({1}, {"Food"}, {<<2020, 1, 5>>}, (0..MaxAge) \cup FarAges), 1)

----------------------------------------------------------------------------
(* The calls. The caller works down the pipeline: it cleans the raw table, *)
(* labels the services, bins the ages, and hands the labelled table to the *)
(* aggregations.                                                           *)

ReadOps ==
    {"service_lookup", "get_recipient_attribute", "get_recipient_month_attribute",
     "get_service_attribute", "get_retention_cohort", "get_id_service_matrix"}

IsRaw(t) == HasCol(t, "MCI_UNIQ_ID")

IsLabelled(t) == HasCol(t, "serv") /\ HasCol(t, "age_bin")

\* The caller goes on with the table returned, or with the one it handed in.
Preprocess ==
    /\ IsRaw(df)
    /\ passed' = PreprocessInPlace(df)
    /\ res' = dhs_preprocessing(df)
    /\ aliased' = FALSE
    /\ df' \in {res', passed'}
    /\ lastOp' = "dhs_preprocessing"
    /\ UNCHANGED service_map

AddServiceLabel ==
    /\ HasCol(df, "service") /\ ~HasCol(df, "serv")
    /\ passed' = add_service_label(df)
    /\ res' = passed'
    /\ aliased' = TRUE
    /\ df' = passed'
    /\ service_map' = ServiceMap(df)
    /\ lastOp' = "add_service_label"

ServiceLookup ==
    /\ service_map /= <<>>
    /\ lastOp \notin ReadOps
    /\ \E i \in 1..Cardinality(Services) + 1 :
         res' = [serv |-> ServList(i)[i],
                 service |-> service_lookup(ServList(i)[i], service_map)]
    /\ passed' = df
    /\ aliased' = FALSE
    /\ lastOp' = "service_lookup"
    /\ UNCHANGED <<df, service_map>>

AddAgeBin ==
    /\ HasCol(df, "serv") /\ ~HasCol(df, "age_bin")
    /\ passed' = add_age_bin(df)
    /\ res' = passed'
    /\ aliased' = TRUE
    /\ df' = passed'
    /\ lastOp' = "add_age_bin"
    /\ UNCHANGED service_map

\* A faulty read: the grouping columns are dropped from the table handed in
\* (drop(..., inplace=True)) instead of from a copy.
ReadsDropping(op, value) ==
    /\ IsLabelled(df)
    /\ lastOp \notin ReadOps
    /\ res' = value
    /\ passed' = DropColumns(df, GroupKeyColumns)
    /\ aliased' = FALSE
    /\ lastOp' = op
    /\ df' = passed'
    /\ UNCHANGED service_map

\* A call that only reads the table handed in and returns a new value. It
\* leaves df and service_map as they are, so a read after a read reaches
\* nothing that the same read after the last write does not: only the
\* latter is taken.
Reads(op, value) ==
    /\ IsLabelled(df)
    /\ lastOp \notin ReadOps
    /\ res' = value
    /\ passed' = df
    /\ aliased' = FALSE
    /\ lastOp' = op
    /\ UNCHANGED <<df, service_map>>

GetRecipientAttribute ==
    Reads("get_recipient_attribute", get_recipient_attribute(df))

GetRecipientMonthAttribute ==
    Reads("get_recipient_month_attribute", get_recipient_month_attribute(df))

GetServiceAttribute ==
    \E observed \in BOOLEAN :
        Reads("get_service_attribute", get_service_attribute(df, observed))

GetRetentionCohort ==
    Reads("get_retention_cohort", get_retention_cohort(df))

GetIdServiceMatrix ==
    Reads("get_id_service_matrix", get_id_service_matrix(df))

Next ==
    \/ Preprocess
    \/ AddServiceLabel
    \/ ServiceLookup
    \/ AddAgeBin
    \/ GetRecipientAttribute
    \/ GetRecipientMonthAttribute
    \/ GetServiceAttribute
    \/ GetRetentionCohort
    \/ GetIdServiceMatrix

Spec == Init /\ [][Next]_vars

SpecCohort == InitCohort /\ [][Next]_vars

SpecAge == InitAge /\ [][Next]_vars

----------------------------------------------------------------------------
(* The claims. After a read the table read is df itself.                   *)

RowsOfId(i) == {k \in 1..Len(df.rows) : df.rows[k].id = i}

\* C1: the recipient summary has exactly one row per distinct id of the
\* input: no id is missing, none is in two rows, none is foreign.
C1_OneRowPerRecipient ==
    lastOp = "get_recipient_attribute" =>
        /\ {res[i].id : i \in 1..Len(res)} = {df.rows[k].id : k \in 1..Len(df.rows)}
        /\ \A i, j \in 1..Len(res) : res[i].id = res[j].id => i = j

\* C1 witness: a table of two rows of one recipient was summarised in one row.
C1_Witness ==
    /\ lastOp = "get_recipient_attribute"
    /\ Len(df.rows) = 2
    /\ df.rows[1].id = df.rows[2].id
    /\ Len(res) = 1

\* C2: num_service is the number of input rows of the id, and
\* distinct_service, the number of distinct services among them, is at most that.
C2_NumService ==
    lastOp = "get_recipient_attribute" =>
        \A i \in 1..Len(res) :
            /\ res[i].num_service = Cardinality(RowsOfId(res[i].id))
            /\ res[i].distinct_service =
                   Cardinality({df.rows[k].service : k \in RowsOfId(res[i].id)})
            /\ res[i].distinct_service <= res[i].num_service

\* C2 witness: a recipient used one service twice.
C2_Witness ==
    /\ lastOp = "get_recipient_attribute"
    /\ \E i \in 1..Len(res) : res[i].num_service = 2 /\ res[i].distinct_service = 1

\* C3: in the ratio table the column elapsed=0 is 1.0 in every cohort row
\* that has an active recipient at offset 0.
C3_RatioAtZeroIsOne ==
    lastOp = "get_retention_cohort" =>
        \A f \in Range(res.count.index) :
            (0 \in Range(res.count.columns) /\ res.count.cell[<<f, 0>>] /= NaN)
                => res.ratio.cell[<<f, 0>>] = Num(1)

\* C4: avg_monthly_recipient is total_usage / distinct_month where
\* distinct_month > 0, and NaN (not zero, not a number) where it is 0;
\* total_usage and distinct_month count the rows and months of the service.
C4_AvgMonthlyRecipient ==
    lastOp = "get_service_attribute" =>
        \A i \in 1..Len(res) :
            LET ks  == {k \in 1..Len(df.rows) : df.rows[k].service = res[i].service}
                avg == res[i].avg_monthly_recipient
            IN  /\ res[i].total_usage = Cardinality(ks)
                /\ res[i].distinct_month = Cardinality({df.rows[k].month : k \in ks})
                /\ res[i].distinct_month > 0 =>
                       /\ avg.d > 0
                       /\ avg.n * res[i].distinct_month = res[i].total_usage * avg.d
                /\ res[i].distinct_month = 0 => avg = NaN

\* C4 witness: one service was used twice in one month name, another never.
C4_Witness ==
    /\ lastOp = "get_service_attribute"
    /\ \E i, j \in 1..Len(res) :
         /\ res[i].distinct_month = 0
         /\ res[j].total_usage = 2 /\ res[j].distinct_month = 1
         /\ res[j].avg_monthly_recipient = Num(2)

\* C5: the id x service matrix has a row per id, a column per code of the
\* mapping, and every cell holds 1 if the id used the service and 0 if not.
C5_DenseMatrix ==
    lastOp = "get_id_service_matrix" =>
        /\ res.index = {df.rows[k].id : k \in 1..Len(df.rows)}
        /\ res.columns = {service_map[i].value : i \in 1..Len(service_map)}
        /\ \A i \in res.index, c \in res.columns :
             res.cell[<<i, c>>] =
                 Num(IF \E k \in 1..Len(df.rows) : df.rows[k].id = i /\ df.rows[k].serv = c
                     THEN 1 ELSE 0)

\* C6: the service map pairs every distinct service of the table with a
\* code of its own, and looking a service's code up returns the service.
C6_ServiceMapBijection ==
    /\ service_map /= <<>> =>
         /\ {service_map[i].key : i \in 1..Len(service_map)} =
                {df.rows[k].service : k \in 1..Len(df.rows)}
         /\ \A i, j \in 1..Len(service_map) :
              (service_map[i].key = service_map[j].key
                  \/ service_map[i].value = service_map[j].value) => i = j
         /\ \A k \in 1..Len(df.rows) : \E i \in 1..Len(service_map) :
              /\ service_map[i].key = df.rows[k].service
              /\ df.rows[k].serv = service_map[i].value
    /\ lastOp = "service_lookup" =>
         \A i \in 1..Len(service_map) :
             service_map[i].value = res.serv => res.service = service_map[i].key

\* C6 witness: the code of the second of two services was looked up.
C6_Witness ==
    /\ lastOp = "service_lookup"
    /\ Len(service_map) = 2
    /\ res.serv = service_map[2].value
    /\ res.service = df.rows[2].service
    /\ df.rows[1].service /= df.rows[2].service

\* The label the bins are documented to give an age >= 0.
ExpectedAgeBin(a) ==
    IF a >= 100 THEN "100+"
    ELSE ToString(10 * (a \div 10)) \o "-" \o ToString(10 * (a \div 10) + 9)

\* C7: an age a in 0..99 is labelled "L-U" with L = 10*(a div 10) and
\* U = L+9, and an age of 100 or more "100+"; so 0 -> "0-9", 55 -> "50-59",
\* 99 -> "90-99", 100, 150 and 999 -> "100+".
C7_AgeBins ==
    /\ lastOp = "add_age_bin" =>
         \A i \in 1..Len(res.rows) :
             res.rows[i].age >= 0 => res.rows[i].age_bin = ExpectedAgeBin(res.rows[i].age)
    /\ lastOp = "add_age_bin" =>
         \A i \in 1..Len(res.rows) :
             /\ res.rows[i].age = 0 => res.rows[i].age_bin = "0-9"
             /\ res.rows[i].age = 55 => res.rows[i].age_bin = "50-59"
             /\ res.rows[i].age = 99 => res.rows[i].age_bin = "90-99"
             /\ res.rows[i].age \in {100, 150, 999} => res.rows[i].age_bin = "100+"

\* C7 witness: the age 100, the first of the last bin, was labelled.
C7_Witness ==
    /\ lastOp = "add_age_bin"
    /\ res.rows[1].age = 100
    /\ res.rows[1].age_bin = "100+"

\* C8: the recipient-month summary has exactly one row per (id, month) of
\* the input, and its num_service is the number of input rows of that pair.
C8_OneRowPerRecipientMonth ==
    lastOp = "get_recipient_month_attribute" =>
        /\ {<<res[i].id, res[i].month>> : i \in 1..Len(res)} =
               {<<df.rows[k].id, df.rows[k].month>> : k \in 1..Len(df.rows)}
        /\ \A i, j \in 1..Len(res) :
             (res[i].id = res[j].id /\ res[i].month = res[j].month) => i = j
        /\ \A i \in 1..Len(res) :
             res[i].num_service =
                 Cardinality({k \in RowsOfId(res[i].id) : df.rows[k].month = res[i].month})

\* C8 witness: one recipient with rows in two months got two rows.
C8_Witness ==
    /\ lastOp = "get_recipient_month_attribute"
    /\ Len(df.rows) = 2
    /\ df.rows[1].id = df.rows[2].id
    /\ df.rows[1].month /= df.rows[2].month
    /\ Len(res) = 2

\* C9 as claimed: no call changes the table it is given, and every result
\* is a new table.
C9_NoCallModifiesInput ==
    [][passed' = df /\ ~aliased']_vars

\* C9 amended: the five get_ operations leave the table they are given as
\* it was and return a new table; dhs_preprocessing rewrites the table it
\* is given (columns dropped and renamed, date parsed, month added) and
\* returns a new one; add_service_label and add_age_bin add their column to
\* the table they are given and return that table.
C9_OnlyReadsKeepInput ==
    [][/\ lastOp' \in ReadOps => (passed' = df /\ df' = df /\ ~aliased')
       /\ lastOp' = "dhs_preprocessing" =>
            /\ passed' /= df /\ ~aliased'
            /\ HasCol(passed', "month") /\ HasCol(passed', "id")
            /\ ~HasCol(passed', "CALDR_YR") /\ ~HasCol(passed', "MCI_UNIQ_ID")
            /\ res'.rows = passed'.rows
       /\ lastOp' = "add_service_label" =>
            /\ aliased' /\ res' = passed'
            /\ ~HasCol(df, "serv") /\ HasCol(passed', "serv")
            /\ DropCols(passed'.rows, {"serv"}) = df.rows
       /\ lastOp' = "add_age_bin" =>
            /\ aliased' /\ res' = passed'
            /\ ~HasCol(df, "age_bin") /\ HasCol(passed', "age_bin")
            /\ DropCols(passed'.rows, {"age_bin"}) = df.rows]_vars

\* C9 witness: an aggregation ran on a table that the three in-place calls
\* had rewritten before.
C9_Witness ==
    /\ lastOp = "get_retention_cohort"
    /\ passed = df
    /\ HasCol(df, "month") /\ HasCol(df, "serv") /\ HasCol(df, "age_bin")
    /\ ~aliased

\* C10: the summary row of an id carries the attributes (all columns but
\* service, date, month) of the first input row of that id.
C10_FirstOccurrenceWins ==
    lastOp = "get_recipient_attribute" =>
        \A i \in 1..Len(res) :
            LET first == df.rows[Min(RowsOfId(res[i].id))]
                attrs == (DOMAIN first) \ GroupKeyColumns
            IN  /\ attrs \subseteq DOMAIN res[i]
                /\ Project(res[i], attrs) = Project(first, attrs)

\* C10 witness: a recipient whose two rows differ in age was summarised.
C10_Witness ==
    /\ lastOp = "get_recipient_attribute"
    /\ Len(df.rows) = 2
    /\ df.rows[1].id = df.rows[2].id
    /\ df.rows[1].age /= df.rows[2].age
    /\ res[1].age = df.rows[1].age
    /\ res[1].age_bin /= df.rows[2].age_bin

====
